---- MODULE Spec2Model ----
(***************************************************************************)
(* State-machine model of the VisionNarrator App component: the playback   *)
(* controller (AudioContext, AudioBufferSourceNode, activeSourceRef and    *)
(* the isPlaying / isPaused flags) and the processVideo pipeline around    *)
(* it.  Two editions of the component live in the repository: the web      *)
(* edition (src/unnamed/part_000, lines 101-517) with pause, resume and    *)
(* stop, and the desktop edition (src/unnamed/part_001) with play only.    *)
(*                                                                         *)
(* Every handler runs to its next `await` atomically (one JavaScript       *)
(* task).  The awaits on ctx.resume() and ctx.suspend() are answered by    *)
(* the audio thread: they are control messages of the AudioContext,        *)
(* handled in FIFO order, and other tasks run while they are pending.  The *)
(* await on decodeAudioData(...) is an await on an async function that     *)
(* does its work synchronously, so only microtasks run before the caller   *)
(* continues: it is no point where another handler can run.  The           *)
(* component re-renders between tasks, so a handler reads the state the    *)
(* handlers before it have set.                                            *)
(*                                                                         *)
(* Spec is the component with the payload of the speech service reduced to *)
(* what the handlers ask of it (none, decodable, not decodable).  PcmSpec  *)
(* is the audio codec on concrete bytes: base64 text, PCM samples and the  *)
(* WAV file, for payloads up to MaxBytes bytes.                            *)
(***************************************************************************)
EXTENDS Integers, Sequences, FiniteSets, TLC

\* Bounds of the model.
MaxSources == 3   \* source nodes alive (started, event pending) or about to be created
MaxQueue == 3     \* control messages of the AudioContext not yet handled
MaxRuns == 2      \* processVideo invocations in flight
MaxBytes == 4     \* bytes of PCM in an audio payload (the codec's specification)

VARIABLES
    edition,          \* "web" (part_000) or "desktop" (part_001)
    mounted,          \* the component is mounted
    status,           \* AppStatus
    videoUrl,         \* "null" or "url"
    result,           \* "null", or the audioData of the result: "none", "good", "bad"
    error,            \* "null" or "msg"
    runs,             \* processVideo invocations in flight, counted per await
    ctx,              \* audioContextRef.current: "none", or the context's state
    ctxCount,         \* AudioContext objects constructed so far
    ctxQueue,         \* control messages of the context, with the awaiting continuation
    sources,          \* state of every AudioBufferSourceNode
    activeSourceRef,  \* activeSourceRef.current: NoSource or a source
    isPlaying,
    isPaused,
    ev,               \* the step just taken: [op, flag]
    afterEnd,         \* the active source ended by itself and no request was made since
    pcm,              \* the 16-bit PCM bytes the speech service produced
    wavBlob,          \* the bytes of the file downloadAudio exported last
    audioBuffer       \* the buffer startNewAudio decoded last

vars == <<edition, mounted, status, videoUrl, result, error, runs, ctx, ctxCount,
          ctxQueue, sources, activeSourceRef, isPlaying, isPaused, ev, afterEnd,
          pcm, wavBlob, audioBuffer>>

\* The variables of the codec's specification (PcmSpec); Spec leaves them alone.
pcmVars == <<pcm, wavBlob, audioBuffer>>

audioVars == <<ctx, ctxCount, ctxQueue, sources, activeSourceRef, isPlaying, isPaused>>
appVars == <<status, videoUrl, result, error, runs>>

NoSource == 0
SourceIds == 1..MaxSources

AppStatus == {"IDLE", "UPLOADING", "SAMPLING", "ANALYZING", "NARRATING", "COMPLETED", "ERROR"}

\* What generateSpeech hands back: nothing, a payload that decodes, one that does not.
Payloads == {"none", "good", "bad"}

\* A source node: "inert" (not created yet, or its ended event was delivered),
\* "playing" (started, neither stopped nor ended), "stopping" (stop() called or
\* buffer exhausted, the ended event not delivered yet).
SourceStates == {"inert", "playing", "stopping"}

\* A control message: op is "resume" or "suspend"; k names the continuation that
\* awaits its promise ("none": nobody awaits); payload and had belong to a
\* startNewAudio continuation (had: a playing source was in the slot at the call).
Msg(op, k, payload, had) == [op |-> op, k |-> k, payload |-> payload, had |-> had]

Ev(op, flag) == [op |-> op, flag |-> flag]

\* The audio state as one value, so that the handlers compose as functions.
cur ==
    [ctx |-> ctx, count |-> ctxCount, q |-> ctxQueue, sources |-> sources,
     ref |-> activeSourceRef, playing |-> isPlaying, paused |-> isPaused]

Commit(a) ==
    /\ ctx' = a.ctx
    /\ ctxCount' = a.count
    /\ ctxQueue' = a.q
    /\ sources' = a.sources
    /\ activeSourceRef' = a.ref
    /\ isPlaying' = a.playing
    /\ isPaused' = a.paused

PlayingSet(srcs) == {s \in SourceIds : srcs[s] = "playing"}
PendingStarts(q) == {i \in DOMAIN q : q[i].k = "start"}

\* Room for one more source node (bound of the model).
CanStart(a) ==
    Cardinality({s \in SourceIds : a.sources[s] # "inert"})
        + Cardinality(PendingStarts(a.q)) < MaxSources

FreeId(srcs) ==
    CHOOSE s \in SourceIds :
        /\ srcs[s] = "inert"
        /\ \A t \in SourceIds : srcs[t] = "inert" => s <= t

\* AudioBufferSourceNode.stop(): a started source stops playing and its ended
\* event becomes pending; on a source that already ended it does nothing.
SourceStop(srcs, s) ==
    IF srcs[s] = "playing" THEN [srcs EXCEPT ![s] = "stopping"] ELSE srcs

\* stopAudio without the setIsPaused(false) of line 291.
stopAudio_NoPausedReset(a) ==
    LET a1 == IF a.ref # NoSource
              THEN [a EXCEPT !.sources = SourceStop(a.sources, a.ref), !.ref = NoSource]
              ELSE a
        a2 == IF a1.ctx = "suspended"
              THEN [a1 EXCEPT !.q = Append(a1.q, Msg("resume", "none", "none", FALSE))]
              ELSE a1
    IN  [a2 EXCEPT !.playing = FALSE]

\* stopAudio without the resume() of lines 287-289.
stopAudio_NoResume(a) ==
    LET a1 == IF a.ref # NoSource
              THEN [a EXCEPT !.sources = SourceStop(a.sources, a.ref), !.ref = NoSource]
              ELSE a
    IN  [a1 EXCEPT !.playing = FALSE, !.paused = FALSE]

\* stopAudio (part_000 lines 280-292).
stopAudio(a) ==
    LET a1 == IF a.ref # NoSource
              THEN [a EXCEPT !.sources = SourceStop(a.sources, a.ref), !.ref = NoSource]
              ELSE a
        a2 == IF a1.ctx = "suspended"
              THEN [a1 EXCEPT !.q = Append(a1.q, Msg("resume", "none", "none", FALSE))]
              ELSE a1
    IN  [a2 EXCEPT !.playing = FALSE, !.paused = FALSE]

\* new AudioContext({sampleRate: 24000}) (part_000 line 240, part_001 line 117).
\* The constructor either throws, or returns a context that is running, or one
\* that is suspended: "starting" is a suspended context that begins rendering by
\* itself (a control message of its own), "suspended" one that waits for resume().
CtxOutcomes == {"running", "suspended", "starting", "throws"}

NewAudioContext(a, outcome) ==
    [a EXCEPT !.ctx = IF outcome = "running" THEN "running" ELSE "suspended",
              !.count = a.count + 1,
              !.q = IF outcome = "starting"
                    THEN Append(a.q, Msg("resume", "none", "none", FALSE))
                    ELSE a.q]

\* decode(base64) and decodeAudioData(bytes, ctx, 24000, 1) (part_000 lines
\* 245-246): they return a buffer for a well-formed payload and throw otherwise.
decodeAudioData(payload) == payload = "good"

\* startFinish without the setIsPaused(false) of line 260.
startFinish_KeepsPaused(a, payload, had) ==
    IF ~decodeAudioData(payload)
    THEN [a |-> a, ev |-> Ev("playFailed", had)]
    ELSE LET s == FreeId(a.sources)
         IN  [a |-> [a EXCEPT !.sources[s] = "playing", !.ref = s, !.playing = TRUE],
              ev |-> Ev("playDone", had)]

\* startNewAudio after its awaits (part_000 lines 245-260): decode, create the
\* source, register onended, record it in the slot, start it, set the flags.
startFinish(a, payload, had) ==
    IF ~decodeAudioData(payload)
    THEN [a |-> a, ev |-> Ev("playFailed", had)]
    ELSE LET s == FreeId(a.sources)
         IN  [a |-> [a EXCEPT !.sources[s] = "playing", !.ref = s,
                              !.playing = TRUE, !.paused = FALSE],
              ev |-> Ev("playDone", had)]

\* startNewAudio without the test of line 239: a new context for every call.
startNewAudio_NewContextPerPlay(a0, payload, outcome) ==
    LET had == a0.ref # NoSource /\ a0.sources[a0.ref] = "playing"
        a1 == stopAudio(a0)
        a2 == NewAudioContext(a1, outcome)
    IN  IF outcome = "throws"
        THEN [a |-> a1, ev |-> Ev("playFailed", had)]
        ELSE IF a2.ctx = "suspended"
        THEN [a |-> [a2 EXCEPT !.q = Append(a2.q, Msg("resume", "start", payload, had))],
              ev |-> Ev("playAwait", had)]
        ELSE startFinish(a2, payload, had)

\* startNewAudio up to its first await (part_000 lines 237-243).
startNewAudio(a0, payload, outcome) ==
    LET had == a0.ref # NoSource /\ a0.sources[a0.ref] = "playing"
        a1 == stopAudio(a0)
        a2 == IF a1.ctx = "none" THEN NewAudioContext(a1, outcome) ELSE a1
    IN  IF a1.ctx = "none" /\ outcome = "throws"
        THEN [a |-> a1, ev |-> Ev("playFailed", had)]
        ELSE IF a2.ctx = "suspended"
        THEN [a |-> [a2 EXCEPT !.q = Append(a2.q, Msg("resume", "start", payload, had))],
              ev |-> Ev("playAwait", had)]
        ELSE startFinish(a2, payload, had)

\* playAudio of the desktop edition (part_001 lines 114-128): no await that lets
\* another task in, no resume, the slot is overwritten, isPlaying is set.
playAudio(a0, payload, outcome) ==
    LET had == a0.ref # NoSource /\ a0.sources[a0.ref] = "playing"
        a1 == IF a0.ref # NoSource
              THEN [a0 EXCEPT !.sources = SourceStop(a0.sources, a0.ref)]
              ELSE a0
        a2 == IF a1.ctx = "none" THEN NewAudioContext(a1, outcome) ELSE a1
    IN  IF a1.ctx = "none" /\ outcome = "throws"
        THEN [a |-> a1, ev |-> Ev("playFailed", had)]
        ELSE IF ~decodeAudioData(payload)
        THEN [a |-> a2, ev |-> Ev("playFailed", had)]
        ELSE LET s == FreeId(a2.sources)
             IN  [a |-> [a2 EXCEPT !.sources[s] = "playing", !.ref = s, !.playing = TRUE],
                  ev |-> Ev("playDone", had)]

\* The play entry point of the edition.
play(a, payload, outcome) ==
    IF edition = "web" THEN startNewAudio(a, payload, outcome)
    ELSE playAudio(a, payload, outcome)

\* source.onended (part_000 lines 251-255; part_001 line 124).
onended(a, s) ==
    IF edition = "web"
    THEN [a EXCEPT !.playing = FALSE, !.paused = FALSE, !.ref = NoSource,
                   !.sources[s] = "inert"]
    ELSE [a EXCEPT !.playing = FALSE, !.sources[s] = "inert"]

\* Another, newer source is the active one when the ended event of s arrives.
Stale(a, s) ==
    /\ a.ref # NoSource
    /\ a.ref # s
    /\ a.sources[a.ref] = "playing"

\* The outcomes to draw for a play call: the constructor's, when it will run.
Outcomes(a) == IF a.ctx = "none" THEN CtxOutcomes ELSE {"running"}

\* Room in the model for what one play call may send to the context.
RoomToPlay(a) == CanStart(a) /\ Len(a.q) + 2 <= MaxQueue

(***************************************************************************)
(* The audio codec: base64 text to bytes, bytes to a sample buffer for      *)
(* playback, bytes to a WAV file for download.  decode, decodeAudioData     *)
(* and createWavBlob are imported from ./utils/audioUtils, which is not    *)
(* among the sources: they follow spec.md sections 4.1 to 4.3.  A byte is  *)
(* a number in 0..255, a base64 character its 6-bit value (Pad for "="), a *)
(* sample the 16-bit integer it was read as (the buffer holds it divided   *)
(* by 32768).                                                              *)
(***************************************************************************)
ByteValues == {0, 127, 128, 255}
ByteSeqs == UNION {[1..n -> ByteValues] : n \in 0..MaxBytes}

SampleRate == 24000
NumChannels == 1
Pad == 64

\* The base64 text of a byte buffer, as the speech service sends it.
RECURSIVE encode(_)
encode(b) ==
    IF b = <<>> THEN <<>>
    ELSE IF Len(b) = 1
    THEN <<b[1] \div 4, (b[1] % 4) * 16, Pad, Pad>>
    ELSE IF Len(b) = 2
    THEN <<b[1] \div 4, (b[1] % 4) * 16 + b[2] \div 16, (b[2] % 16) * 4, Pad>>
    ELSE <<b[1] \div 4, (b[1] % 4) * 16 + b[2] \div 16,
           (b[2] % 16) * 4 + b[3] \div 64, b[3] % 64>>
         \o encode(SubSeq(b, 4, Len(b)))

\* decode(base64): four characters give three bytes, fewer before padding.
RECURSIVE decode(_)
decode(s) ==
    IF s = <<>> THEN <<>>
    ELSE LET b1 == s[1] * 4 + s[2] \div 16
             b2 == (s[2] % 16) * 16 + s[3] \div 4
             b3 == (s[3] % 4) * 64 + s[4]
         IN  IF s[3] = Pad THEN <<b1>>
             ELSE IF s[4] = Pad THEN <<b1, b2>>
             ELSE <<b1, b2, b3>> \o decode(SubSeq(s, 5, Len(s)))

\* Two bytes as a little-endian signed 16-bit integer.
Int16(lo, hi) ==
    LET u == lo + 256 * hi IN IF u >= 32768 THEN u - 65536 ELSE u

\* Every consecutive pair of bytes is one sample; a last single byte is left.
RECURSIVE Samples(_)
Samples(bytes) ==
    IF Len(bytes) < 2 THEN <<>>
    ELSE <<Int16(bytes[1], bytes[2])>> \o Samples(SubSeq(bytes, 3, Len(bytes)))

\* No buffer decoded yet.
NoBuffer == [numberOfChannels |-> 0, length |-> 0, sampleRate |-> 0, channelData |-> <<>>]

\* decodeAudioData(bytes, ctx, sampleRate, numChannels), the PCM decoder: the
\* samples are interleaved by channel, an incomplete last frame is dropped.
decodePcm(bytes, sampleRate, numChannels) ==
    LET all == Samples(bytes)
        frameCount == Len(all) \div numChannels
    IN  [numberOfChannels |-> numChannels,
         length |-> frameCount,
         sampleRate |-> sampleRate,
         channelData |-> [c \in 1..numChannels |->
                             [i \in 1..frameCount |-> all[(i - 1) * numChannels + c]]]]

LE16(n) == <<n % 256, (n \div 256) % 256>>
LE32(n) == <<n % 256, (n \div 256) % 256, (n \div 65536) % 256, (n \div 16777216) % 256>>

\* createWavBlob(bytes, sampleRate): the 44-byte RIFF/WAVE header of mono
\* 16-bit PCM, then the bytes as they are.
createWavBlob(bytes, sampleRate) ==
    <<82, 73, 70, 70>> \o LE32(36 + Len(bytes)) \o <<87, 65, 86, 69>>
    \o <<102, 109, 116, 32>> \o LE32(16) \o LE16(1) \o LE16(NumChannels)
    \o LE32(sampleRate) \o LE32(sampleRate * NumChannels * 2)
    \o LE16(NumChannels * 2) \o LE16(16)
    \o <<100, 97, 116, 97>> \o LE32(Len(bytes)) \o bytes

\* downloadAudio with the base64 text handed to createWavBlob undecoded.
downloadAudio_NoDecode(base64) == createWavBlob(base64, SampleRate)

\* downloadAudio (part_000 lines 296-297; part_001 line 193): the file exported.
downloadAudio(base64) == createWavBlob(decode(base64), SampleRate)

\* startNewAudio's decode with two channels asked for.
startNewAudio_audioBuffer_Stereo(base64) == decodePcm(decode(base64), SampleRate, 2)

\* The audioBuffer of startNewAudio (part_000 lines 245-246; part_001 line 120).
startNewAudio_audioBuffer(base64) == decodePcm(decode(base64), SampleRate, NumChannels)

\* result.audioData: the payload of the speech service, base64 text.
audioData == encode(pcm)

\* The controller is IDLE: no source in the slot, neither flag set.
Idle == activeSourceRef = NoSource /\ ~isPlaying /\ ~isPaused

\* A session is PLAYING / PAUSED: the slot holds a started source and the flags say so.
Playing ==
    /\ activeSourceRef # NoSource /\ sources[activeSourceRef] = "playing"
    /\ isPlaying /\ ~isPaused
Paused ==
    /\ activeSourceRef # NoSource /\ sources[activeSourceRef] = "playing"
    /\ isPaused /\ ~isPlaying

\* The audio controls are on screen.  part_000 lines 419 and 464: the result
\* panel is rendered while result is set, and the Play/Pause, Stop and Download
\* buttons inside it while result.audioData is.  part_001 lines 184-203: the
\* Reproducir and Descargar buttons are rendered while result is set.
AudioControls ==
    IF edition = "web" THEN result \in {"good", "bad"} ELSE result # "null"

Init ==
    /\ edition \in {"web", "desktop"}
    /\ mounted = TRUE
    /\ status = "IDLE"
    /\ videoUrl = "null"
    /\ result = "null"
    /\ error = "null"
    /\ runs = [sampling |-> 0, analyzing |-> 0, narrating |-> 0]
    /\ ctx = "none"
    /\ ctxCount = 0
    /\ ctxQueue = <<>>
    /\ sources = [s \in SourceIds |-> "inert"]
    /\ activeSourceRef = NoSource
    /\ isPlaying = FALSE
    /\ isPaused = FALSE
    /\ ev = Ev("init", FALSE)
    /\ afterEnd = FALSE
    /\ pcm = <<>>
    /\ wavBlob = <<>>
    /\ audioBuffer = NoBuffer

\* The Stop button (part_000 lines 478-484), shown while result.audioData is set.
\* The flag of the step says that it stopped a paused session.
StopAudio ==
    /\ edition = "web" /\ mounted
    /\ AudioControls
    /\ Len(ctxQueue) < MaxQueue
    /\ Commit(stopAudio(cur))
    /\ ev' = Ev("stopAudio", Paused)
    /\ afterEnd' = FALSE
    /\ UNCHANGED <<pcmVars, edition, mounted, appVars>>

\* togglePlayback (part_000 lines 263-278), the Play/Pause button, shown while
\* result.audioData is set.  Without a context it returns at once.
ToggleNoContext ==
    /\ edition = "web" /\ mounted
    /\ AudioControls
    /\ ctx = "none"
    /\ ev' = Ev("toggleNoContext", FALSE)
    /\ afterEnd' = FALSE
    /\ UNCHANGED <<pcmVars, edition, mounted, appVars, audioVars>>

\* isPaused: await ctx.resume() (line 268).
ToggleResume ==
    /\ edition = "web" /\ mounted
    /\ AudioControls
    /\ ctx # "none"
    /\ isPaused
    /\ Len(ctxQueue) < MaxQueue
    /\ ctxQueue' = Append(ctxQueue, Msg("resume", "toggleResume", "none", FALSE))
    /\ ev' = Ev("resumeRequest", FALSE)
    /\ afterEnd' = FALSE
    /\ UNCHANGED <<pcmVars, edition, mounted, appVars, ctx, ctxCount, sources, activeSourceRef,
                   isPlaying, isPaused>>

\* isPlaying: await ctx.suspend() (line 272).
TogglePause ==
    /\ edition = "web" /\ mounted
    /\ AudioControls
    /\ ctx # "none"
    /\ ~isPaused /\ isPlaying
    /\ Len(ctxQueue) < MaxQueue
    /\ ctxQueue' = Append(ctxQueue, Msg("suspend", "togglePause", "none", FALSE))
    /\ ev' = Ev("pauseRequest", FALSE)
    /\ afterEnd' = FALSE
    /\ UNCHANGED <<pcmVars, edition, mounted, appVars, ctx, ctxCount, sources, activeSourceRef,
                   isPlaying, isPaused>>

\* Neither: startNewAudio(result.audioData) (lines 275-276).
ToggleStart ==
    /\ edition = "web" /\ mounted
    /\ AudioControls
    /\ ctx # "none"
    /\ ~isPaused /\ ~isPlaying
    /\ RoomToPlay(cur)
    /\ LET r == startNewAudio(cur, result, "running")
       IN  Commit(r.a) /\ ev' = r.ev
    /\ afterEnd' = FALSE
    /\ UNCHANGED <<pcmVars, edition, mounted, appVars>>

togglePlayback == ToggleNoContext \/ ToggleResume \/ TogglePause \/ ToggleStart

\* The Reproducir button of the desktop edition (part_001 line 190), shown
\* while a result is: playAudio(result.audioData!).
PlayButton ==
    /\ edition = "desktop" /\ mounted
    /\ AudioControls
    /\ RoomToPlay(cur)
    /\ \E outcome \in Outcomes(cur) :
          LET r == playAudio(cur, result, outcome)
          IN  Commit(r.a) /\ ev' = r.ev
    /\ afterEnd' = FALSE
    /\ UNCHANGED <<pcmVars, edition, mounted, appVars>>

\* The Download button.  downloadAudio (part_000 lines 294-306) returns at once
\* without audioData; the handler of part_001 lines 192-199 passes audioData on
\* as it is.  Neither touches the playback state.  The flag of the step says
\* that the handler ran with no payload.
DownloadButton ==
    /\ mounted
    /\ AudioControls
    /\ ev' = Ev("download", result = "none")
    /\ UNCHANGED <<pcmVars, edition, mounted, appVars, audioVars, afterEnd>>

\* The audio thread handles the oldest control message: the context changes
\* state, the promise resolves and the handler awaiting it continues
\* (togglePlayback lines 269-270 and 273-274, startNewAudio lines 245-260).
CtxProcess ==
    /\ mounted
    /\ ctxQueue # <<>>
    /\ LET m == Head(ctxQueue)
           a1 == [cur EXCEPT !.ctx = IF m.op = "resume" THEN "running" ELSE "suspended",
                             !.q = Tail(ctxQueue)]
       IN  CASE m.k = "none" ->
                  /\ Commit(a1)
                  /\ ev' = Ev("ctxState", FALSE)
                  /\ afterEnd' = afterEnd
             [] m.k = "toggleResume" ->
                  /\ Commit([a1 EXCEPT !.paused = FALSE, !.playing = TRUE])
                  /\ ev' = Ev("resumeDone", FALSE)
                  /\ afterEnd' = afterEnd
             [] m.k = "togglePause" ->
                  /\ Commit([a1 EXCEPT !.paused = TRUE, !.playing = FALSE])
                  /\ ev' = Ev("pauseDone", FALSE)
                  /\ afterEnd' = afterEnd
             [] m.k = "start" ->
                  /\ LET r == startFinish(a1, m.payload, m.had)
                     IN  Commit(r.a) /\ ev' = r.ev
                  /\ afterEnd' = FALSE
    /\ UNCHANGED <<pcmVars, edition, mounted, appVars>>

\* The ended event of a source that was stopped: its onended handler runs.
SourceEnded(s) ==
    /\ mounted
    /\ sources[s] = "stopping"
    /\ ctx = "running"
    /\ Commit(onended(cur, s))
    /\ ev' = Ev("onendedStop", Stale(cur, s))
    /\ afterEnd' = afterEnd
    /\ UNCHANGED <<pcmVars, edition, mounted, appVars>>

\* The buffer of a playing source is exhausted (the context is rendering): the
\* source ends by itself and its onended handler runs.
NaturalEnd(s) ==
    /\ mounted
    /\ sources[s] = "playing"
    /\ ctx = "running"
    /\ Commit(onended(cur, s))
    /\ ev' = Ev("onendedNatural", Stale(cur, s))
    /\ afterEnd' = (s = activeSourceRef)
    /\ UNCHANGED <<pcmVars, edition, mounted, appVars>>

\* The cleanup of the effect of part_000 lines 118-124: the component is torn
\* down with the renderer, no task of the page runs afterwards.
Unmount ==
    /\ edition = "web" /\ mounted
    /\ mounted' = FALSE
    /\ ctx' = IF ctx # "none" THEN "closed" ELSE ctx
    /\ ev' = Ev("unmount", FALSE)
    /\ afterEnd' = FALSE
    /\ UNCHANGED <<pcmVars, edition, appVars, ctxCount, ctxQueue, sources, activeSourceRef,
                   isPlaying, isPaused>>

\* resetAll (part_000 lines 135-142), the button over the video.
ResetAll ==
    /\ edition = "web" /\ mounted
    /\ videoUrl = "url"
    /\ Len(ctxQueue) < MaxQueue
    /\ Commit(stopAudio(cur))
    /\ result' = "null"
    /\ error' = "null"
    /\ status' = "IDLE"
    /\ videoUrl' = "null"
    /\ ev' = Ev("resetAll", FALSE)
    /\ afterEnd' = FALSE
    /\ UNCHANGED <<pcmVars, edition, mounted, runs>>

\* clearResults (part_000 lines 144-149), the button of the result panel.
ClearResults ==
    /\ edition = "web" /\ mounted
    /\ result # "null"
    /\ Len(ctxQueue) < MaxQueue
    /\ Commit(stopAudio(cur))
    /\ result' = "null"
    /\ error' = "null"
    /\ status' = "IDLE"
    /\ ev' = Ev("clearResults", FALSE)
    /\ afterEnd' = FALSE
    /\ UNCHANGED <<pcmVars, edition, mounted, videoUrl, runs>>

\* handleFileUpload; the file input is shown while no video is loaded.
\* part_000 lines 126-133: resetAll(), then setVideoUrl(url).
\* part_001 lines 66-74: setVideoUrl(url), setResult(null), setStatus(IDLE).
HandleFileUpload ==
    /\ mounted
    /\ videoUrl = "null"
    /\ videoUrl' = "url"
    /\ result' = "null"
    /\ status' = "IDLE"
    /\ IF edition = "web"
       THEN /\ Len(ctxQueue) < MaxQueue
            /\ Commit(stopAudio(cur))
            /\ error' = "null"
            /\ afterEnd' = FALSE
       ELSE /\ UNCHANGED <<audioVars, error>>
            /\ afterEnd' = afterEnd
    /\ ev' = Ev("handleFileUpload", FALSE)
    /\ UNCHANGED <<pcmVars, edition, mounted, runs>>

\* The close button over the video of the desktop edition (part_001 line 148).
CloseVideo ==
    /\ edition = "desktop" /\ mounted
    /\ videoUrl = "url"
    /\ videoUrl' = "null"
    /\ ev' = Ev("closeVideo", FALSE)
    /\ UNCHANGED <<pcmVars, edition, mounted, status, result, error, runs, audioVars, afterEnd>>

RunsInFlight == runs.sampling + runs.analyzing + runs.narrating

\* processVideo up to its first await (part_000 lines 185-190, part_001 lines
\* 76-88); the button is enabled while status is IDLE or COMPLETED.
ProcessVideo ==
    /\ mounted
    /\ status \in {"IDLE", "COMPLETED"}
    /\ videoUrl = "url"
    /\ RunsInFlight < MaxRuns
    /\ status' = "SAMPLING"
    /\ runs' = [runs EXCEPT !.sampling = @ + 1]
    /\ ev' = Ev("processVideo", FALSE)
    /\ UNCHANGED <<pcmVars, edition, mounted, videoUrl, result, error, audioVars, afterEnd>>

\* The catch block (part_000 lines 230-234, part_001 lines 108-111).
Catch ==
    /\ error' = "msg"
    /\ status' = "ERROR"
    /\ ev' = Ev("processFailed", FALSE)
    /\ UNCHANGED <<videoUrl, result, audioVars, afterEnd>>

\* Sampling is over (part_000 lines 190-193, part_001 lines 86-97).  The run
\* reads videoRef.current again: with the video element gone that throws.
SamplingDone ==
    /\ mounted
    /\ runs.sampling > 0
    /\ IF videoUrl = "url"
       THEN /\ status' = "ANALYZING"
            /\ runs' = [runs EXCEPT !.sampling = @ - 1, !.analyzing = @ + 1]
            /\ ev' = Ev("sampled", FALSE)
            /\ UNCHANGED <<videoUrl, result, error, audioVars, afterEnd>>
       ELSE /\ runs' = [runs EXCEPT !.sampling = @ - 1]
            /\ Catch
    /\ UNCHANGED <<pcmVars, edition, mounted>>

\* AnalyzeDone with COMPLETED set where NARRATING belongs.
AnalyzeDone_SkipsNarrating ==
    /\ mounted
    /\ runs.analyzing > 0
    /\ \/ /\ status' = "COMPLETED"
          /\ runs' = [runs EXCEPT !.analyzing = @ - 1, !.narrating = @ + 1]
          /\ ev' = Ev("analyzed", FALSE)
          /\ UNCHANGED <<videoUrl, result, error, audioVars, afterEnd>>
       \/ /\ runs' = [runs EXCEPT !.analyzing = @ - 1]
          /\ Catch
    /\ UNCHANGED <<pcmVars, edition, mounted>>

\* analyzeVideo answers (part_000 lines 212-214, part_001 lines 99-101).
AnalyzeDone ==
    /\ mounted
    /\ runs.analyzing > 0
    /\ \/ /\ status' = "NARRATING"
          /\ runs' = [runs EXCEPT !.analyzing = @ - 1, !.narrating = @ + 1]
          /\ ev' = Ev("analyzed", FALSE)
          /\ UNCHANGED <<videoUrl, result, error, audioVars, afterEnd>>
       \/ /\ runs' = [runs EXCEPT !.analyzing = @ - 1]
          /\ Catch
    /\ UNCHANGED <<pcmVars, edition, mounted>>

\* generateSpeech answers (part_000 lines 216-229, part_001 lines 103-107):
\* the result and COMPLETED are set, then playback starts if there is audio.
SpeechDone ==
    /\ mounted
    /\ runs.narrating > 0
    /\ runs' = [runs EXCEPT !.narrating = @ - 1]
    /\ \/ /\ result' = "none"
          /\ status' = "COMPLETED"
          /\ ev' = Ev("completedNoAudio", FALSE)
          /\ UNCHANGED <<videoUrl, error, audioVars, afterEnd>>
       \/ /\ RoomToPlay(cur)
          /\ \E p \in {"good", "bad"}, outcome \in Outcomes(cur) :
                /\ result' = p
                /\ LET r == play(cur, p, outcome)
                   IN  Commit(r.a) /\ ev' = r.ev
          /\ status' = "COMPLETED"
          /\ afterEnd' = FALSE
          /\ UNCHANGED <<videoUrl, error>>
       \/ Catch
    /\ UNCHANGED <<pcmVars, edition, mounted>>

Next ==
    \/ HandleFileUpload
    \/ ResetAll
    \/ ClearResults
    \/ CloseVideo
    \/ ProcessVideo
    \/ SamplingDone
    \/ AnalyzeDone
    \/ SpeechDone
    \/ StopAudio
    \/ togglePlayback
    \/ PlayButton
    \/ DownloadButton
    \/ CtxProcess
    \/ \E s \in SourceIds : SourceEnded(s)
    \/ \E s \in SourceIds : NaturalEnd(s)
    \/ Unmount

Spec == Init /\ [][Next]_vars

(***************************************************************************)
(* The codec on its own: the payload is any byte buffer up to MaxBytes,    *)
(* and the two uses the component makes of it are applied to it.           *)
(***************************************************************************)
PcmInit ==
    /\ edition \in {"web", "desktop"}
    /\ mounted = TRUE
    /\ status = "COMPLETED"
    /\ videoUrl = "url"
    /\ result = "good"
    /\ error = "null"
    /\ runs = [sampling |-> 0, analyzing |-> 0, narrating |-> 0]
    /\ ctx = "none"
    /\ ctxCount = 0
    /\ ctxQueue = <<>>
    /\ sources = [s \in SourceIds |-> "inert"]
    /\ activeSourceRef = NoSource
    /\ isPlaying = FALSE
    /\ isPaused = FALSE
    /\ ev = Ev("init", FALSE)
    /\ afterEnd = FALSE
    /\ pcm \in ByteSeqs
    /\ wavBlob = <<>>
    /\ audioBuffer = NoBuffer

\* The Download button on a payload: the file is built.
ExportWav ==
    /\ AudioControls
    /\ wavBlob' = downloadAudio(audioData)
    /\ UNCHANGED <<edition, mounted, appVars, audioVars, ev, afterEnd, pcm, audioBuffer>>

\* A play call's decoding of the payload.
DecodeAudio ==
    /\ AudioControls
    /\ audioBuffer' = startNewAudio_audioBuffer(audioData)
    /\ UNCHANGED <<edition, mounted, appVars, audioVars, ev, afterEnd, pcm, wavBlob>>

PcmNext == ExportWav \/ DecodeAudio

PcmSpec == PcmInit /\ [][PcmNext]_vars

TypeOK ==
    /\ edition \in {"web", "desktop"}
    /\ mounted \in BOOLEAN
    /\ status \in AppStatus
    /\ videoUrl \in {"null", "url"}
    /\ result \in {"null"} \cup Payloads
    /\ error \in {"null", "msg"}
    /\ RunsInFlight <= MaxRuns
    /\ ctx \in {"none", "running", "suspended", "closed"}
    /\ ctxCount \in Nat
    /\ Len(ctxQueue) <= MaxQueue
    /\ sources \in [SourceIds -> SourceStates]
    /\ activeSourceRef \in {NoSource} \cup SourceIds
    /\ isPlaying \in BOOLEAN
    /\ isPaused \in BOOLEAN
    /\ afterEnd \in BOOLEAN
    /\ pcm \in ByteSeqs
    /\ wavBlob \in Seq(0..255)
    /\ audioBuffer.length \in Nat

EndedOps == {"onendedStop", "onendedNatural"}
PendingToggles == {i \in DOMAIN ctxQueue : ctxQueue[i].k \in {"toggleResume", "togglePause"}}

(***************************************************************************)
(* C1: in every reachable state at most one source node is started and not *)
(* yet stopped or ended, so two sounds are never audible together.         *)
(***************************************************************************)
C1_AtMostOneAudible == Cardinality(PlayingSet(sources)) <= 1

(***************************************************************************)
(* C2: when a play call made while a started source A was in the slot has  *)
(* completed, the only source playing is the new one, the one in the slot: *)
(* A was stopped before it started.                                        *)
(***************************************************************************)
C2_OnlyNewSourcePlays ==
    (ev.op = "playDone" /\ ev.flag) => PlayingSet(sources) = {activeSourceRef}

(***************************************************************************)
(* C3: the ended event of a source that is no longer the active one, while *)
(* a newer source is active, changes neither the slot nor the flags.       *)
(***************************************************************************)
C3_StaleEndedIsNoOp ==
    [][(ev'.op \in EndedOps /\ ev'.flag)
          => UNCHANGED <<activeSourceRef, isPlaying, isPaused>>]_vars

\* The controller's state, without the requests still on their way to the context.
Controller(a) == <<a.ctx, a.count, a.sources, a.ref, a.playing, a.paused>>

(***************************************************************************)
(* C4: after stopAudio, in whatever state it was called, the slot is empty *)
(* and both flags are false, and calling stopAudio again at once leaves    *)
(* the controller's state exactly as it is.  (stop() is the only call of   *)
(* stopAudio that can throw, and it is inside try/catch.)                  *)
(***************************************************************************)
C4_StopAudioIdempotent ==
    ev.op = "stopAudio" =>
        /\ Idle
        /\ Controller(stopAudio(cur)) = Controller(cur)

\* stopAudio has acted on a paused session: its source is stopped, the context
\* still suspended.
C4_Witness ==
    /\ ev.op = "stopAudio"
    /\ ctx = "suspended"
    /\ \E s \in SourceIds : sources[s] = "stopping"

(***************************************************************************)
(* C5: a pause takes effect only on a PLAYING session, and then the        *)
(* context is suspended, the slot keeps its source and the state is        *)
(* PAUSED; with no active session, or a paused one, it changes neither the *)
(* context state, the slot nor the flags.                                  *)
(***************************************************************************)
C5_PauseOnlyFromPlaying ==
    [][ev'.op = "pauseDone" =>
          IF Playing
          THEN /\ ctx' = "suspended"
               /\ activeSourceRef' = activeSourceRef
               /\ sources' = sources
               /\ isPaused' /\ ~isPlaying'
          ELSE UNCHANGED <<ctx, activeSourceRef, isPlaying, isPaused>>]_vars

(***************************************************************************)
(* C6: a resume takes effect only on a PAUSED session and continues it:    *)
(* afterwards the slot holds the same source, still started, the context   *)
(* is running, isPaused is false and isPlaying is true; otherwise it       *)
(* changes neither the slot nor the flags.                                 *)
(***************************************************************************)
C6_ResumeOnlyFromPaused ==
    [][ev'.op = "resumeDone" =>
          IF Paused
          THEN /\ ctx' = "running"
               /\ activeSourceRef' = activeSourceRef
               /\ sources' = sources
               /\ ~isPaused' /\ isPlaying'
          ELSE UNCHANGED <<activeSourceRef, isPlaying, isPaused>>]_vars

(***************************************************************************)
(* C7: once the active source has ended by itself and the pause or resume  *)
(* requests in flight at that moment are answered, with no request made    *)
(* since, the controller is IDLE.                                          *)
(***************************************************************************)
C7_EndedSettlesIdle ==
    (edition = "web" /\ afterEnd /\ PendingToggles = {}) => Idle

(***************************************************************************)
(* C8: the on-finish callback of a session that was ended by an explicit   *)
(* stop has no effect on the controller's state.                           *)
(***************************************************************************)
C8_NoFinishAfterStop ==
    [][(edition = "web" /\ ev'.op = "onendedStop")
          => UNCHANGED <<activeSourceRef, isPlaying, isPaused>>]_vars

C10_FailedPlayLeavesIdle ==
    ev.op = "playFailed" => (Idle /\ PlayingSet(sources) = {})

(***************************************************************************)
(* C11: when generateSpeech returns no audio the run still ends with       *)
(* status COMPLETED and no error, and starts no playback; and while the    *)
(* result holds no audio the audio controls are not on screen, so that no  *)
(* handler of the Play, Stop or Download button runs.                      *)
(***************************************************************************)
C11_NoAudioNoControls ==
    /\ [](result = "none" => ~AudioControls)
    /\ [][/\ ev'.op = "completedNoAudio"
                => (status' = "COMPLETED" /\ error' = error /\ UNCHANGED audioVars)
          /\ result = "none"
                => ~(togglePlayback \/ StopAudio \/ PlayButton \/ DownloadButton)]_vars

\* A 32-bit little-endian field of a file, read back.
U32(file, at) ==
    file[at] + 256 * file[at + 1] + 65536 * file[at + 2] + 16777216 * file[at + 3]

(***************************************************************************)
(* C12: the WAV file exported for a payload of n PCM bytes is 44 + n bytes *)
(* long, its RIFF size field (bytes 4-7) holds n + 36 and its data size    *)
(* field (bytes 40-43) holds n.                                            *)
(***************************************************************************)
C12_WavLength ==
    wavBlob # <<>> =>
        /\ Len(wavBlob) = 44 + Len(pcm)
        /\ U32(wavBlob, 5) = Len(pcm) + 36
        /\ U32(wavBlob, 41) = Len(pcm)

\* A two-sample payload was exported: 48 bytes, data size 4.
C12_Witness ==
    /\ Len(pcm) = 4
    /\ Len(wavBlob) = 48
    /\ U32(wavBlob, 41) = 4

(***************************************************************************)
(* C13: a payload of L bytes decodes, mono, to a buffer of floor(L/2)      *)
(* samples, sample i read from bytes 2i-1 and 2i; for odd L the last byte  *)
(* is dropped and the samples are those of the payload without it.         *)
(***************************************************************************)
C13_DecodeLength ==
    audioBuffer # NoBuffer =>
        /\ audioBuffer.length = Len(pcm) \div 2
        /\ Len(audioBuffer.channelData[1]) = Len(pcm) \div 2
        /\ \A i \in 1..(Len(pcm) \div 2) :
              audioBuffer.channelData[1][i] = Int16(pcm[2 * i - 1], pcm[2 * i])
        /\ Len(pcm) % 2 = 1 =>
              audioBuffer.channelData[1] = Samples(SubSeq(pcm, 1, Len(pcm) - 1))

\* A payload of three bytes was decoded: one sample, the third byte dropped.
C13_Witness ==
    /\ Len(pcm) = 3
    /\ audioBuffer # NoBuffer
    /\ audioBuffer.length = 1

(***************************************************************************)
(* C14: stopAudio on a paused session stops the source, empties the slot,  *)
(* clears both flags and asks the suspended context to resume; and every   *)
(* play call of part_000 that completes leaves a started source in the     *)
(* slot on a running context with isPlaying true and isPaused false, so    *)
(* the play after such a stop does not start on a suspended context.       *)
(***************************************************************************)
C14_StopFromPaused ==
    /\ [][(Paused /\ ev'.op = "stopAudio") =>
             /\ sources'[activeSourceRef] = "stopping"
             /\ activeSourceRef' = NoSource
             /\ ~isPlaying' /\ ~isPaused'
             /\ ctx = "suspended" =>
                   /\ ctxQueue' # <<>>
                   /\ ctxQueue'[Len(ctxQueue')].op = "resume"]_vars
    /\ []((edition = "web" /\ ev.op = "playDone") =>
             /\ ctx = "running"
             /\ activeSourceRef # NoSource
             /\ sources[activeSourceRef] = "playing"
             /\ isPlaying /\ ~isPaused)

\* stopAudio has just stopped a paused session on a suspended context.
C14_Witness ==
    /\ ev = Ev("stopAudio", TRUE)
    /\ ctx = "suspended"
    /\ activeSourceRef = NoSource
    /\ ctxQueue # <<>>

(***************************************************************************)
(* C15: while the component is mounted, isPlaying implies that the slot    *)
(* holds a started source, neither stopped nor ended, on a running         *)
(* context; and every started source is the one in the slot.               *)
(***************************************************************************)
C15_PlayingMatchesSlot ==
    mounted =>
        /\ isPlaying =>
              /\ activeSourceRef # NoSource
              /\ sources[activeSourceRef] = "playing"
              /\ ctx = "running"
        /\ PlayingSet(sources) \subseteq {activeSourceRef}

(***************************************************************************)
(* C16: isPlaying and isPaused are never both true.                        *)
(***************************************************************************)
C16_NeverPlayingAndPaused == ~(isPlaying /\ isPaused)

\* A pause has taken effect on the component's second session: both flags were
\* set by the same continuation, while the first session's source awaits its
\* ended event.
C16_Witness ==
    /\ ev.op = "pauseDone"
    /\ isPaused /\ ~isPlaying
    /\ \E s \in SourceIds : sources[s] = "stopping"
    /\ activeSourceRef # NoSource

(***************************************************************************)
(* C17: at most one processVideo run is in flight at any time.             *)
(***************************************************************************)
C17_SingleRun == RunsInFlight <= 1

ResetOps == {"resetAll", "clearResults", "handleFileUpload"}

(***************************************************************************)
(* C18: once resetAll or clearResults (or the upload handler, which calls  *)
(* resetAll) has left status IDLE and result null, they stay so and no     *)
(* source is started until processVideo is started again.                  *)
(***************************************************************************)
C18_StaysReset ==
    [][(edition = "web" /\ status = "IDLE" /\ result = "null" /\ ev'.op # "processVideo")
          => /\ status' = "IDLE"
             /\ result' = "null"
             /\ PlayingSet(sources') \subseteq PlayingSet(sources)]_vars

(***************************************************************************)
(* C19: a run sets SAMPLING when it starts, ANALYZING only after it set    *)
(* SAMPLING, NARRATING only after ANALYZING, COMPLETED only after          *)
(* NARRATING, and ERROR only as its last act, after any of them; it sets   *)
(* the result, and starts playback, only in the task that sets COMPLETED.  *)
(* The position of every run in flight is its place in runs.               *)
(***************************************************************************)
C19_StatusOrder ==
    [][/\ status' # status =>
             CASE status' = "SAMPLING" ->
                    runs' = [runs EXCEPT !.sampling = @ + 1]
               [] status' = "ANALYZING" ->
                    runs' = [runs EXCEPT !.sampling = @ - 1, !.analyzing = @ + 1]
               [] status' = "NARRATING" ->
                    runs' = [runs EXCEPT !.analyzing = @ - 1, !.narrating = @ + 1]
               [] status' = "COMPLETED" ->
                    runs' = [runs EXCEPT !.narrating = @ - 1]
               [] status' = "ERROR" ->
                    RunsInFlight > 0 /\ RunsInFlight' = RunsInFlight - 1
               [] OTHER -> ev'.op \in ResetOps
       /\ (result' # result /\ result' # "null") =>
             (status' = "COMPLETED" /\ runs' = [runs EXCEPT !.narrating = @ - 1])
       /\ (runs' # runs /\ PlayingSet(sources') # PlayingSet(sources)) =>
             (status' = "COMPLETED" /\ result' \in {"good", "bad"})]_vars

\* A run has completed with audio while a run started later is still sampling.
C19_Witness ==
    /\ status = "COMPLETED"
    /\ ev.op = "playDone"
    /\ runs.sampling = 1

(***************************************************************************)
(* C20: a run that fails sets status ERROR and an error message, leaves    *)
(* the result as it is and starts no audio; from ERROR the status changes  *)
(* only by a reset, to IDLE; and the error message is set only while the   *)
(* status is ERROR.                                                        *)
(***************************************************************************)
C20_FailureHandling ==
    /\ [](error # "null" => status = "ERROR")
    /\ [][/\ ev'.op = "processFailed" =>
                /\ status' = "ERROR" /\ error' # "null"
                /\ result' = result
                /\ UNCHANGED audioVars
          /\ (status = "ERROR" /\ status' # "ERROR") =>
                (status' = "IDLE" /\ ev'.op \in ResetOps)]_vars
====
